---- MODULE Spec2Model ----
(***************************************************************************)
(* FreshMart order-management bot (src/bot.py): the session state machine, *)
(* the cart store, the order ledger and the polling control loop.          *)
(*                                                                         *)
(* Texts (message texts, callback payloads, order ids, item names) are     *)
(* sequences of one-character strings, so that lower(), startswith(),      *)
(* slicing and the formatting of an order id are computed and not assumed. *)
(* The emoji that prefix the button texts and catalog names in the source  *)
(* are left out (the module is ASCII); every text keeps its words.         *)
(* Money is in cents.  Timestamps are whole seconds of the clock.          *)
(***************************************************************************)
EXTENDS Integers, Sequences, FiniteSets, TLC

----------------------------------------------------------------------------
(* Texts of the source *)

CmdStart == <<"/", "s", "t", "a", "r", "t">>
CmdShop == <<"S", "h", "o", "p", " ", "G", "r", "o", "c", "e", "r", "i", "e", "s">>
CmdMyCart == <<"M", "y", " ", "C", "a", "r", "t">>
CmdTrackOrder == <<"T", "r", "a", "c", "k", " ", "O", "r", "d", "e", "r">>
CmdCheckout == <<"C", "h", "e", "c", "k", "o", "u", "t">>
CmdClearCart == <<"C", "l", "e", "a", "r", " ", "C", "a", "r", "t">>
CmdContinueShopping == <<"C", "o", "n", "t", "i", "n", "u", "e", " ", "S", "h", "o", "p", "p", "i", "n", "g">>
CmdMainMenu == <<"M", "a", "i", "n", " ", "M", "e", "n", "u">>
CatFreshProduce == <<"F", "r", "e", "s", "h", " ", "P", "r", "o", "d", "u", "c", "e">>
CatMeatPoultry == <<"M", "e", "a", "t", " ", "&", " ", "P", "o", "u", "l", "t", "r", "y">>
CatDairyEggs == <<"D", "a", "i", "r", "y", " ", "&", " ", "E", "g", "g", "s">>
PfxAdd == <<"a", "d", "d", "_">>
PfxShip == <<"s", "h", "i", "p", "_">>
PfxCancel == <<"c", "a", "n", "c", "e", "l", "_">>
PfxDeliver == <<"d", "e", "l", "i", "v", "e", "r", "_">>
PfxOrd == <<"O", "R", "D">>
CbBackCategories == <<"b", "a", "c", "k", "_", "c", "a", "t", "e", "g", "o", "r", "i", "e", "s">>
StrNone == <<"n", "o", "n", "e">>
NoteOnTheWay == <<"Y", "o", "u", "r", " ", "o", "r", "d", "e", "r", " ", "i", "s", " ", "o", "n", " ", "t", "h", "e", " ", "w", "a", "y", "!">>
DefaultCancelReason == <<"U", "n", "a", "b", "l", "e", " ", "t", "o", " ", "f", "u", "l", "f", "i", "l", "l", " ", "o", "r", "d", "e", "r", " ", "a", "t", " ", "t", "h", "i", "s", " ", "t", "i", "m", "e">>
ItemApples == <<"A", "p", "p", "l", "e", "s">>
ItemBananas == <<"B", "a", "n", "a", "n", "a", "s">>
ItemCarrots == <<"C", "a", "r", "r", "o", "t", "s">>
ItemSpinach == <<"S", "p", "i", "n", "a", "c", "h">>
ItemTomatoes == <<"T", "o", "m", "a", "t", "o", "e", "s">>
ItemChickenBreast == <<"C", "h", "i", "c", "k", "e", "n", " ", "B", "r", "e", "a", "s", "t">>
ItemBeefSteak == <<"B", "e", "e", "f", " ", "S", "t", "e", "a", "k">>
ItemSalmonFillet == <<"S", "a", "l", "m", "o", "n", " ", "F", "i", "l", "l", "e", "t">>
ItemBacon == <<"B", "a", "c", "o", "n">>
ItemMilk == <<"M", "i", "l", "k">>
ItemCheese == <<"C", "h", "e", "e", "s", "e">>
ItemEggs == <<"E", "g", "g", "s">>
ItemButter == <<"B", "u", "t", "t", "e", "r">>

(* The catalog: category -> item -> price (cents) and unit. *)
grocery_categories ==
    (CatFreshProduce :>
        ((ItemApples :> [price |-> 399, unit |-> "kg"]) @@
         (ItemBananas :> [price |-> 199, unit |-> "kg"]) @@
         (ItemCarrots :> [price |-> 249, unit |-> "kg"]) @@
         (ItemSpinach :> [price |-> 499, unit |-> "bunch"]) @@
         (ItemTomatoes :> [price |-> 349, unit |-> "kg"])))
    @@ (CatMeatPoultry :>
        ((ItemChickenBreast :> [price |-> 1299, unit |-> "kg"]) @@
         (ItemBeefSteak :> [price |-> 2499, unit |-> "kg"]) @@
         (ItemSalmonFillet :> [price |-> 1899, unit |-> "kg"]) @@
         (ItemBacon :> [price |-> 899, unit |-> "pack"])))
    @@ (CatDairyEggs :>
        ((ItemMilk :> [price |-> 299, unit |-> "liter"]) @@
         (ItemCheese :> [price |-> 699, unit |-> "block"]) @@
         (ItemEggs :> [price |-> 499, unit |-> "dozen"]) @@
         (ItemButter :> [price |-> 399, unit |-> "block"])))

(* 50.00 and 5.00 in cents: "delivery_fee = 0 if subtotal >= 50 else 5". *)
FreeDeliveryThreshold == 5000
DeliveryFee == 500

----------------------------------------------------------------------------
(* Python's string and dict operations, as the handlers use them *)

Digits == <<"0", "1", "2", "3", "4", "5", "6", "7", "8", "9">>
UpperLetters == <<"A", "B", "C", "D", "E", "F", "G", "H", "I", "J", "K", "L", "M", "N", "O", "P", "Q", "R", "S", "T", "U", "V", "W", "X", "Y", "Z">>
LowerLetters == <<"a", "b", "c", "d", "e", "f", "g", "h", "i", "j", "k", "l", "m", "n", "o", "p", "q", "r", "s", "t", "u", "v", "w", "x", "y", "z">>

(* str(n) of an integer n >= 0: its decimal digits. *)
RECURSIVE str(_)
str(n) ==
    IF n < 10 THEN <<Digits[n + 1]>>
    ELSE str(n \div 10) \o <<Digits[(n % 10) + 1]>>

(* The text as typed, without case folding. *)
as_typed(text) == text

LowerChar(c) ==
    IF \E i \in 1..26 : UpperLetters[i] = c
    THEN LowerLetters[CHOOSE i \in 1..26 : UpperLetters[i] = c]
    ELSE c

(* text.lower() *)
lower(text) == [i \in 1..Len(text) |-> LowerChar(text[i])]

(* s.startswith(prefix) *)
startswith(s, prefix) ==
    /\ Len(s) >= Len(prefix)
    /\ SubSeq(s, 1, Len(prefix)) = prefix

(* s[n:] *)
slice_from(s, n) == SubSeq(s, n + 1, Len(s))

(* d[k] = v on a dict d *)
dict_set(d, k, v) == (k :> v) @@ d

(* The empty dict *)
EmptyDict == <<>>

(* A value that is falsy in Python: None or the empty string *)
Unset == <<>>

----------------------------------------------------------------------------
(* State *)

VARIABLES
    TELEGRAM_TOKEN,   \* TRUE when the environment sets the token
    ADMIN_CHAT_ID,    \* the operator's chat id as a text, Unset when not set
    user_carts,       \* chat_id -> item name -> [price, unit, quantity]
    user_sessions,    \* chat_id -> session dict ('step' and the collected fields)
    order_tracking,   \* order id -> order record (the ledger)
    last_update_id,   \* the polling cursor
    clock,            \* the wall clock, in whole seconds
    pc,               \* "boot", "exited", "poll" or "handle": where main() stands
    batch,            \* update ids of the fetched batch not yet handled
    ev,               \* the update handled last
    out               \* the outbound calls made while handling it, in order

vars == <<TELEGRAM_TOKEN, ADMIN_CHAT_ID, user_carts, user_sessions,
          order_tracking, last_update_id, clock, pc, batch, ev, out>>

(* The mutable globals a handler works on, threaded through its calls. *)
Cur ==
    [carts |-> user_carts, sessions |-> user_sessions,
     orders |-> order_tracking, clock |-> clock, out |-> <<>>]

(* The result of a call that also returns a value. *)
Ret(st, value) == [st |-> st, ret |-> value]

NoStep == "(none)"

(* user_sessions.get(chat_id, {}).get('step') *)
step_of(sessions, chat_id) ==
    IF chat_id \in DOMAIN sessions /\ "step" \in DOMAIN sessions[chat_id]
    THEN sessions[chat_id].step
    ELSE NoStep

----------------------------------------------------------------------------
(* Outbound message channel *)

(* One call of send_message: the recipient (as the chat id's text), the   *)
(* message template and what the template is filled with.                 *)
Msg(to, tmpl, order_id, note, nums) ==
    [to |-> to, tmpl |-> tmpl, order_id |-> order_id, note |-> note, nums |-> nums]

(* send_message(chat_id, text): the attempt is recorded; its outcome is   *)
(* an input of the one caller that reads it (complete_order).             *)
send_message(st, to, tmpl, order_id, note, nums) ==
    [st EXCEPT !.out = Append(@, Msg(to, tmpl, order_id, note, nums))]

(* A message with nothing filled in. *)
send_plain(st, chat_id, tmpl) ==
    send_message(st, str(chat_id), tmpl, <<>>, <<>>, <<>>)

----------------------------------------------------------------------------
(* Order tracking *)

(* generate_order_id(): f"ORD{int(time.time())}" *)
generate_order_id(now) == PfxOrd \o str(now)

RECURSIVE SumOver(_, _)
SumOver(cart, names) ==
    IF names = {} THEN 0
    ELSE LET n == CHOOSE x \in names : TRUE
         IN  cart[n].price * cart[n].quantity + SumOver(cart, names \ {n})

(* sum(details['price'] * details['quantity'] for details in cart.values()) *)
cart_subtotal(cart) == SumOver(cart, DOMAIN cart)

(* A delivery fee charged on every order, whatever the subtotal. *)
delivery_fee_flat(subtotal) == DeliveryFee

(* delivery_fee = 0 if subtotal >= 50 else 5 *)
delivery_fee(subtotal) ==
    IF subtotal >= FreeDeliveryThreshold THEN 0 ELSE DeliveryFee

(* An order record with the phone and the address in each other's field. *)
save_order_tracking_swapped(st, order_id, chat_id, customer_name, phone, address, cart, total) ==
    LET order ==
            [chat_id |-> chat_id, customer_name |-> customer_name,
             phone |-> address, address |-> phone, cart |-> cart,
             total |-> total, status |-> "Pending",
             created_at |-> st.clock, updated_at |-> st.clock]
    IN  [st EXCEPT !.orders = dict_set(@, order_id, order)]

(* save_order_tracking: a copy of the cart, status Pending, both timestamps now *)
save_order_tracking(st, order_id, chat_id, customer_name, phone, address, cart, total) ==
    LET cart_copy ==
            [n \in DOMAIN cart |->
                [price |-> cart[n].price, unit |-> cart[n].unit,
                 quantity |-> cart[n].quantity]]
        order ==
            [chat_id |-> chat_id, customer_name |-> customer_name,
             phone |-> phone, address |-> address, cart |-> cart_copy,
             total |-> total, status |-> "Pending",
             created_at |-> st.clock, updated_at |-> st.clock]
    IN  [st EXCEPT !.orders = dict_set(@, order_id, order)]

(* A notification that always gives the default cancellation reason. *)
notify_customer_order_update_default(st, order_id, new_status, admin_note) ==
    IF order_id \notin DOMAIN st.orders THEN st
    ELSE LET order == st.orders[order_id]
             to == str(order.chat_id)
         IN  CASE new_status = "Shipped" ->
                    send_message(st, to, "Order Shipped", order_id, admin_note, <<>>)
               [] new_status = "Cancelled" ->
                    send_message(st, to, "Order Cancelled", order_id,
                                 DefaultCancelReason, <<>>)
               [] new_status = "Delivered" ->
                    send_message(st, to, "Order Delivered", order_id, <<>>, <<>>)
               [] OTHER -> st

(* notify_customer_order_update: the template of the new status, sent to  *)
(* the chat_id stored in the order.                                       *)
notify_customer_order_update(st, order_id, new_status, admin_note) ==
    IF order_id \notin DOMAIN st.orders THEN st
    ELSE LET order == st.orders[order_id]
             to == str(order.chat_id)
         IN  CASE new_status = "Shipped" ->
                    send_message(st, to, "Order Shipped", order_id, admin_note, <<>>)
               [] new_status = "Cancelled" ->
                    send_message(st, to, "Order Cancelled", order_id,
                        IF admin_note # <<>> THEN admin_note ELSE DefaultCancelReason,
                        <<>>)
               [] new_status = "Delivered" ->
                    send_message(st, to, "Order Delivered", order_id, <<>>, <<>>)
               [] OTHER -> st

(* A status update that leaves updated_at as it was. *)
update_order_status_stale(st, order_id, new_status, admin_note) ==
    IF order_id \notin DOMAIN st.orders THEN Ret(st, FALSE)
    ELSE LET st1 == [st EXCEPT !.orders[order_id].status = new_status]
         IN  Ret(notify_customer_order_update(st1, order_id, new_status, admin_note),
                 TRUE)

(* A status update that reports success for an order id not in the ledger. *)
update_order_status_lenient(st, order_id, new_status, admin_note) ==
    IF order_id \notin DOMAIN st.orders THEN Ret(st, TRUE)
    ELSE LET st1 == [st EXCEPT !.orders[order_id].status = new_status,
                               !.orders[order_id].updated_at = st.clock]
         IN  Ret(notify_customer_order_update(st1, order_id, new_status, admin_note),
                 TRUE)

(* update_order_status(order_id, new_status, admin_note) *)
update_order_status(st, order_id, new_status, admin_note) ==
    IF order_id \notin DOMAIN st.orders THEN Ret(st, FALSE)
    ELSE LET st1 == [st EXCEPT !.orders[order_id].status = new_status,
                               !.orders[order_id].updated_at = st.clock]
         IN  Ret(notify_customer_order_update(st1, order_id, new_status, admin_note),
                 TRUE)

(* send_admin_order_notification: skipped when no operator is configured *)
send_admin_order_notification(st, admin, order_id) ==
    IF admin = Unset THEN st
    ELSE send_message(st, admin, "NEW ORDER", order_id, <<>>,
                      <<st.orders[order_id].total>>)

(* handle_admin_callback(chat_id, callback_data) *)
handle_admin_callback(st, admin, chat_id, callback_data) ==
    IF admin = Unset \/ str(chat_id) # admin
    THEN send_plain(st, chat_id, "Unauthorized access.")
    ELSE IF startswith(callback_data, PfxShip) THEN
             LET order_id == slice_from(callback_data, 5)
                 r == update_order_status(st, order_id, "Shipped", NoteOnTheWay)
             IN  IF r.ret
                 THEN send_message(r.st, str(chat_id), "marked as shipped", order_id, <<>>, <<>>)
                 ELSE send_message(r.st, str(chat_id), "not found", order_id, <<>>, <<>>)
         ELSE IF startswith(callback_data, PfxCancel) THEN
             LET order_id == slice_from(callback_data, 7)
                 st1 == [st EXCEPT !.sessions =
                            dict_set(@, chat_id,
                                [step |-> "awaiting_cancel_reason", order_id |-> order_id])]
             IN  send_message(st1, str(chat_id), "provide reason", order_id, <<>>, <<>>)
         ELSE IF startswith(callback_data, PfxDeliver) THEN
             LET order_id == slice_from(callback_data, 8)
                 r == update_order_status(st, order_id, "Delivered", <<>>)
             IN  IF r.ret
                 THEN send_message(r.st, str(chat_id), "marked as delivered", order_id, <<>>, <<>>)
                 ELSE send_message(r.st, str(chat_id), "not found", order_id, <<>>, <<>>)
         ELSE st

----------------------------------------------------------------------------
(* Order completion *)

(* An order completion that clears the cart and resets the session before *)
(* the ledger insert, whether or not the insert succeeds.                 *)
complete_order_clear_first(st, admin, chat_id, customer_name, phone, address, cart, special_instructions, insert_ok, conf_ok) ==
    LET order_id == generate_order_id(st.clock)
        subtotal == cart_subtotal(cart)
        total == subtotal + delivery_fee(subtotal)
        st0 == [st EXCEPT
                  !.carts = IF chat_id \in DOMAIN @
                            THEN dict_set(@, chat_id, EmptyDict) ELSE @,
                  !.sessions = IF chat_id \in DOMAIN @
                               THEN dict_set(@, chat_id, [step |-> "main_menu"])
                               ELSE @]
    IN  IF ~insert_ok
        THEN Ret(send_plain(st0, chat_id, "Error saving your order. Please try again."),
                 FALSE)
        ELSE
        LET st1 == save_order_tracking(st0, order_id, chat_id, customer_name,
                                       phone, address, cart, total)
            st2 == send_message(st1, <<"s", "h", "e", "e", "t">>, "save_order_to_sheet",
                                order_id, special_instructions, <<total>>)
            st3 == send_message(st2, str(chat_id), "Order Confirmed!", order_id,
                                <<>>, <<total>>)
            st4 == IF conf_ok THEN st3
                   ELSE send_plain([st3 EXCEPT !.clock = @ + 1], chat_id,
                                   "Your order has been received!")
        IN  Ret(send_admin_order_notification(st4, admin, order_id), TRUE)

(* An order completion that gives up when the confirmation is not sent,   *)
(* before the cart and the session are reset.                             *)
complete_order_needs_confirmation(st, admin, chat_id, customer_name, phone, address, cart, special_instructions, insert_ok, conf_ok) ==
    LET order_id == generate_order_id(st.clock)
        subtotal == cart_subtotal(cart)
        total == subtotal + delivery_fee(subtotal)
    IN  IF ~insert_ok
        THEN Ret(send_plain(st, chat_id, "Error saving your order. Please try again."),
                 FALSE)
        ELSE
        LET st1 == save_order_tracking(st, order_id, chat_id, customer_name,
                                       phone, address, cart, total)
            st2 == send_message(st1, <<"s", "h", "e", "e", "t">>, "save_order_to_sheet",
                                order_id, special_instructions, <<total>>)
            st3 == send_message(st2, str(chat_id), "Order Confirmed!", order_id,
                                <<>>, <<total>>)
            st5 == send_admin_order_notification(st3, admin, order_id)
            st6 == IF chat_id \in DOMAIN st5.carts
                   THEN [st5 EXCEPT !.carts = dict_set(@, chat_id, EmptyDict)]
                   ELSE st5
            st7 == IF chat_id \in DOMAIN st6.sessions
                   THEN [st6 EXCEPT !.sessions =
                            dict_set(@, chat_id, [step |-> "main_menu"])]
                   ELSE st6
        IN  IF conf_ok THEN Ret(st7, TRUE) ELSE Ret(st3, FALSE)

(* complete_order(chat_id, customer_name, phone, address, cart,           *)
(* special_instructions).  insert_ok is FALSE when save_order_tracking    *)
(* raises before the insert and returns None; conf_ok is what             *)
(* send_message returns for the confirmation (on False: sleep(1), retry). *)
complete_order(st, admin, chat_id, customer_name, phone, address, cart, special_instructions, insert_ok, conf_ok) ==
    LET order_id == generate_order_id(st.clock)
        subtotal == cart_subtotal(cart)
        total == subtotal + delivery_fee(subtotal)
    IN  IF ~insert_ok
        THEN Ret(send_plain(st, chat_id, "Error saving your order. Please try again."),
                 FALSE)
        ELSE
        LET st1 == save_order_tracking(st, order_id, chat_id, customer_name,
                                       phone, address, cart, total)
            \* save_order_to_sheet(order_id, ..., total, special_instructions)
            st2 == send_message(st1, <<"s", "h", "e", "e", "t">>, "save_order_to_sheet",
                                order_id, special_instructions, <<total>>)
            st3 == send_message(st2, str(chat_id), "Order Confirmed!", order_id,
                                <<>>, <<total>>)
            st4 == IF conf_ok THEN st3
                   ELSE send_plain([st3 EXCEPT !.clock = @ + 1], chat_id,
                                   "Your order has been received!")
            st5 == send_admin_order_notification(st4, admin, order_id)
            st6 == IF chat_id \in DOMAIN st5.carts
                   THEN [st5 EXCEPT !.carts = dict_set(@, chat_id, EmptyDict)]
                   ELSE st5
            st7 == IF chat_id \in DOMAIN st6.sessions
                   THEN [st6 EXCEPT !.sessions =
                            dict_set(@, chat_id, [step |-> "main_menu"])]
                   ELSE st6
        IN  Ret(st7, TRUE)

----------------------------------------------------------------------------
(* Bot handlers *)

(* A welcome that leaves the session as it is. *)
handle_start_welcome_only(st, chat_id) == send_plain(st, chat_id, "Welcome")

(* handle_start(chat_id) *)
handle_start(st, chat_id) ==
    LET st1 == send_plain(st, chat_id, "Welcome")
    IN  [st1 EXCEPT !.sessions = dict_set(@, chat_id, [step |-> "main_menu"])]

(* show_categories(chat_id) *)
show_categories(st, chat_id) == send_plain(st, chat_id, "Grocery Categories")

(* show_category_items(chat_id, category) *)
show_category_items(st, chat_id, category) ==
    IF category \notin DOMAIN grocery_categories
    THEN send_plain(st, chat_id, "Category not found.")
    ELSE send_message(st, str(chat_id), "Select an item", <<>>, category, <<>>)

(* The catalog entry of item_name: the first category that holds it. *)
item_lookup(item_name) ==
    LET holding == {c \in DOMAIN grocery_categories :
                        item_name \in DOMAIN grocery_categories[c]}
    IN  IF holding = {} THEN {}
        ELSE {grocery_categories[CHOOSE c \in holding : TRUE][item_name]}

(* An add to cart that writes a fresh line each time, not counting up. *)
handle_add_to_cart_fresh_line(st, chat_id, item_name) ==
    IF item_lookup(item_name) = {}
    THEN send_plain(st, chat_id, "Item not found.")
    ELSE
    LET item_details == CHOOSE d \in item_lookup(item_name) : TRUE
        cart == IF chat_id \in DOMAIN st.carts THEN st.carts[chat_id] ELSE EmptyDict
        line == [price |-> item_details.price, unit |-> item_details.unit,
                 quantity |-> 1]
        st1 == [st EXCEPT !.carts = dict_set(@, chat_id, dict_set(cart, item_name, line))]
    IN  show_categories(send_message(st1, str(chat_id), "Added to cart", <<>>,
                                     item_name, <<>>), chat_id)

(* handle_add_to_cart(chat_id, item_name) *)
handle_add_to_cart(st, chat_id, item_name) ==
    IF item_lookup(item_name) = {}
    THEN send_plain(st, chat_id, "Item not found.")
    ELSE
    LET item_details == CHOOSE d \in item_lookup(item_name) : TRUE
        cart == IF chat_id \in DOMAIN st.carts THEN st.carts[chat_id] ELSE EmptyDict
        line == IF item_name \in DOMAIN cart
                THEN [cart[item_name] EXCEPT !.quantity = @ + 1]
                ELSE [price |-> item_details.price, unit |-> item_details.unit,
                      quantity |-> 1]
        st1 == [st EXCEPT !.carts = dict_set(@, chat_id, dict_set(cart, item_name, line))]
        st2 == send_message(st1, str(chat_id), "Added to cart", <<>>, item_name, <<>>)
    IN  show_categories(st2, chat_id)

(* show_cart(chat_id) *)
show_cart(st, chat_id) ==
    IF chat_id \notin DOMAIN st.carts \/ st.carts[chat_id] = EmptyDict
    THEN send_plain(st, chat_id, "Your cart is empty!")
    ELSE LET total == cart_subtotal(st.carts[chat_id])
             fee == IF total >= FreeDeliveryThreshold THEN 0 ELSE DeliveryFee
             final_total == total + fee
         IN  send_message(st, str(chat_id), "Your Cart", <<>>, <<>>,
                          <<total, fee, final_total>>)

(* A checkout that starts the dialogue without looking at the cart. *)
handle_checkout_unguarded(st, chat_id) ==
    LET st1 == send_plain(st, chat_id, "Please provide your full name")
    IN  [st1 EXCEPT !.sessions = dict_set(@, chat_id, [step |-> "awaiting_name"])]

(* A checkout that refuses a missing cart only, not an emptied one. *)
handle_checkout_missing_only(st, chat_id) ==
    IF chat_id \notin DOMAIN st.carts
    THEN send_plain(st, chat_id, "Your cart is empty!")
    ELSE LET st1 == send_plain(st, chat_id, "Please provide your full name")
         IN  [st1 EXCEPT !.sessions = dict_set(@, chat_id, [step |-> "awaiting_name"])]

(* handle_checkout(chat_id) *)
handle_checkout(st, chat_id) ==
    IF chat_id \notin DOMAIN st.carts \/ st.carts[chat_id] = EmptyDict
    THEN send_plain(st, chat_id, "Your cart is empty!")
    ELSE LET st1 == send_plain(st, chat_id, "Please provide your full name")
         IN  [st1 EXCEPT !.sessions = dict_set(@, chat_id, [step |-> "awaiting_name"])]

(* A callback dispatch in which an item-select also shows the main menu,  *)
(* resetting the session.                                                 *)
handle_callback_query_to_menu(st, admin, chat_id, callback_data) ==
    IF startswith(callback_data, PfxAdd)
    THEN handle_start(handle_add_to_cart(st, chat_id, slice_from(callback_data, 4)),
                      chat_id)
    ELSE IF callback_data = CbBackCategories
    THEN show_categories(st, chat_id)
    ELSE IF \/ startswith(callback_data, PfxShip)
            \/ startswith(callback_data, PfxCancel)
            \/ startswith(callback_data, PfxDeliver)
    THEN handle_admin_callback(st, admin, chat_id, callback_data)
    ELSE st

(* handle_callback_query(chat_id, callback_data) *)
handle_callback_query(st, admin, chat_id, callback_data) ==
    IF startswith(callback_data, PfxAdd)
    THEN handle_add_to_cart(st, chat_id, slice_from(callback_data, 4))
    ELSE IF callback_data = CbBackCategories
    THEN show_categories(st, chat_id)
    ELSE IF \/ startswith(callback_data, PfxShip)
            \/ startswith(callback_data, PfxCancel)
            \/ startswith(callback_data, PfxDeliver)
    THEN handle_admin_callback(st, admin, chat_id, callback_data)
    ELSE st

(* The "except" of handle_message: the globals as they were, one message. *)
message_error(st, chat_id) ==
    send_plain(st, chat_id, "An error occurred. Please try /start")

(* The menu commands with a Clear Cart that empties every user's cart. *)
handle_menu_clear_all(st, chat_id, text) ==
    IF text = CmdStart THEN handle_start(st, chat_id)
    ELSE IF text = CmdShop THEN show_categories(st, chat_id)
    ELSE IF text = CmdMyCart THEN show_cart(st, chat_id)
    ELSE IF text = CmdTrackOrder THEN
        LET user_orders == {oid \in DOMAIN st.orders : st.orders[oid].chat_id = chat_id}
        IN  IF user_orders # {}
            THEN send_message(st, str(chat_id), "Your Orders", <<>>, <<>>,
                              <<Cardinality(user_orders)>>)
            ELSE send_plain(st, chat_id, "No orders found.")
    ELSE IF text = CmdCheckout THEN handle_checkout(st, chat_id)
    ELSE IF text = CmdClearCart THEN
        LET st1 == IF chat_id \in DOMAIN st.carts
                   THEN [st EXCEPT !.carts = [c \in DOMAIN @ |-> EmptyDict]]
                   ELSE st
        IN  send_plain(st1, chat_id, "Cart cleared!")
    ELSE IF text = CmdContinueShopping \/ text = CmdMainMenu
    THEN handle_start(st, chat_id)
    ELSE IF text \in DOMAIN grocery_categories
    THEN show_category_items(st, chat_id, text)
    ELSE handle_start(st, chat_id)

(* The menu commands of handle_message (no input step is pending). *)
handle_menu(st, chat_id, text) ==
    IF text = CmdStart THEN handle_start(st, chat_id)
    ELSE IF text = CmdShop THEN show_categories(st, chat_id)
    ELSE IF text = CmdMyCart THEN show_cart(st, chat_id)
    ELSE IF text = CmdTrackOrder THEN
        LET user_orders == {oid \in DOMAIN st.orders : st.orders[oid].chat_id = chat_id}
        IN  IF user_orders # {}
            THEN send_message(st, str(chat_id), "Your Orders", <<>>, <<>>,
                              <<Cardinality(user_orders)>>)
            ELSE send_plain(st, chat_id, "No orders found.")
    ELSE IF text = CmdCheckout THEN handle_checkout(st, chat_id)
    ELSE IF text = CmdClearCart THEN
        LET st1 == IF chat_id \in DOMAIN st.carts
                   THEN [st EXCEPT !.carts = dict_set(@, chat_id, EmptyDict)]
                   ELSE st
        IN  send_plain(st1, chat_id, "Cart cleared!")
    ELSE IF text = CmdContinueShopping \/ text = CmdMainMenu
    THEN handle_start(st, chat_id)
    ELSE IF text \in DOMAIN grocery_categories
    THEN show_category_items(st, chat_id, text)
    ELSE handle_start(st, chat_id)

(* handle_message leaving awaiting_cancel_reason only when the order was  *)
(* found and cancelled.                                                   *)
handle_message_cancel_keeps_step(st, admin, chat_id, text, insert_ok, conf_ok) ==
    LET step == step_of(st.sessions, chat_id)
        session == st.sessions[chat_id]
    IN
    IF step = "awaiting_name" THEN
        LET st1 == [st EXCEPT !.sessions = dict_set(@, chat_id,
                        [step |-> "awaiting_phone", customer_name |-> text])]
        IN  send_message(st1, str(chat_id), "Please provide your phone number",
                         <<>>, text, <<>>)
    ELSE IF step = "awaiting_phone" THEN
        IF "customer_name" \notin DOMAIN session THEN message_error(st, chat_id)
        ELSE
        LET st1 == [st EXCEPT !.sessions = dict_set(@, chat_id,
                        [step |-> "awaiting_address",
                         customer_name |-> session.customer_name,
                         phone |-> text])]
        IN  send_plain(st1, chat_id, "Please provide your delivery address")
    ELSE IF step = "awaiting_address" THEN
        IF {"customer_name", "phone"} \ DOMAIN session # {}
        THEN message_error(st, chat_id)
        ELSE
        LET st1 == [st EXCEPT !.sessions = dict_set(@, chat_id,
                        [step |-> "awaiting_instructions",
                         customer_name |-> session.customer_name,
                         phone |-> session.phone,
                         address |-> text])]
        IN  send_plain(st1, chat_id, "Any special instructions?")
    ELSE IF step = "awaiting_instructions" THEN
        IF {"customer_name", "phone", "address"} \ DOMAIN session # {}
        THEN message_error(st, chat_id)
        ELSE
        LET special_instructions == IF lower(text) # StrNone THEN text ELSE <<>>
            cart == IF chat_id \in DOMAIN st.carts THEN st.carts[chat_id]
                    ELSE EmptyDict
            r == complete_order(st, admin, chat_id, session.customer_name,
                                session.phone, session.address, cart,
                                special_instructions, insert_ok, conf_ok)
        IN  IF r.ret THEN r.st
            ELSE send_plain(r.st, chat_id, "Order failed. Please try again.")
    ELSE IF step = "awaiting_cancel_reason" THEN
        LET has_id == "order_id" \in DOMAIN session /\ session.order_id # <<>>
            r == IF has_id
                 THEN update_order_status(st, session.order_id, "Cancelled", text)
                 ELSE Ret(st, FALSE)
            st1 == IF r.ret
                   THEN send_message(r.st, str(chat_id), "Order cancelled!",
                                     session.order_id, <<>>, <<>>)
                   ELSE r.st
        IN  IF r.ret
            THEN [st1 EXCEPT !.sessions = dict_set(@, chat_id, [step |-> "main_menu"])]
            ELSE st1
    ELSE handle_menu(st, chat_id, text)

(* handle_message(chat_id, text) *)
handle_message(st, admin, chat_id, text, insert_ok, conf_ok) ==
    LET step == step_of(st.sessions, chat_id)
        session == st.sessions[chat_id]
    IN
    IF step = "awaiting_name" THEN
        LET st1 == [st EXCEPT !.sessions = dict_set(@, chat_id,
                        [step |-> "awaiting_phone", customer_name |-> text])]
        IN  send_message(st1, str(chat_id), "Please provide your phone number",
                         <<>>, text, <<>>)
    ELSE IF step = "awaiting_phone" THEN
        IF "customer_name" \notin DOMAIN session THEN message_error(st, chat_id)
        ELSE
        LET st1 == [st EXCEPT !.sessions = dict_set(@, chat_id,
                        [step |-> "awaiting_address",
                         customer_name |-> session.customer_name,
                         phone |-> text])]
        IN  send_plain(st1, chat_id, "Please provide your delivery address")
    ELSE IF step = "awaiting_address" THEN
        IF {"customer_name", "phone"} \ DOMAIN session # {}
        THEN message_error(st, chat_id)
        ELSE
        LET st1 == [st EXCEPT !.sessions = dict_set(@, chat_id,
                        [step |-> "awaiting_instructions",
                         customer_name |-> session.customer_name,
                         phone |-> session.phone,
                         address |-> text])]
        IN  send_plain(st1, chat_id, "Any special instructions?")
    ELSE IF step = "awaiting_instructions" THEN
        IF {"customer_name", "phone", "address"} \ DOMAIN session # {}
        THEN message_error(st, chat_id)
        ELSE
        LET special_instructions == IF lower(text) # StrNone THEN text ELSE <<>>
            cart == IF chat_id \in DOMAIN st.carts THEN st.carts[chat_id]
                    ELSE EmptyDict
            r == complete_order(st, admin, chat_id, session.customer_name,
                                session.phone, session.address, cart,
                                special_instructions, insert_ok, conf_ok)
        IN  IF r.ret THEN r.st
            ELSE send_plain(r.st, chat_id, "Order failed. Please try again.")
    ELSE IF step = "awaiting_cancel_reason" THEN
        LET has_id == "order_id" \in DOMAIN session /\ session.order_id # <<>>
            r == IF has_id
                 THEN update_order_status(st, session.order_id, "Cancelled", text)
                 ELSE Ret(st, FALSE)
            st1 == IF r.ret
                   THEN send_message(r.st, str(chat_id), "Order cancelled!",
                                     session.order_id, <<>>, <<>>)
                   ELSE r.st
        IN  [st1 EXCEPT !.sessions = dict_set(@, chat_id, [step |-> "main_menu"])]
    ELSE handle_menu(st, chat_id, text)

----------------------------------------------------------------------------
(* The control loop *)

NoEvent == [kind |-> "none", chat_id |-> 0, data |-> <<>>,
            insert_ok |-> TRUE, conf_ok |-> TRUE]

(* The bounds a specification explores within. *)
Limits(max_clock, max_qty, max_update_id, max_batch) ==
    [max_clock |-> max_clock, max_qty |-> max_qty,
     max_update_id |-> max_update_id, max_batch |-> max_batch]

(* Module load (lines 13-15, 75-78): the configuration is read from the   *)
(* environment, the three dicts are empty and the cursor is 0.            *)
InitOver(tokens, admin_ids) ==
    /\ TELEGRAM_TOKEN \in tokens
    /\ ADMIN_CHAT_ID \in admin_ids
    /\ user_carts = EmptyDict
    /\ user_sessions = EmptyDict
    /\ order_tracking = EmptyDict
    /\ last_update_id = 0
    /\ clock = 0
    /\ pc = "boot"
    /\ batch = <<>>
    /\ ev = NoEvent
    /\ out = <<>>

(* Lines 22-24 and main(): without a token the process exits before the loop. *)
Boot ==
    /\ pc = "boot"
    /\ pc' = IF TELEGRAM_TOKEN THEN "poll" ELSE "exited"
    /\ UNCHANGED <<TELEGRAM_TOKEN, ADMIN_CHAT_ID, user_carts, user_sessions,
                   order_tracking, last_update_id, clock, batch, ev, out>>

(* A poll that leaves the cursor on the highest id fetched, not past it. *)
GetUpdates_cursor_on_last(lim) ==
    /\ pc = "poll"
    /\ \E n \in 0..lim.max_batch :
        /\ last_update_id + n <= lim.max_update_id
        /\ batch' = [i \in 1..n |-> last_update_id + i - 1]
        /\ last_update_id' = IF n > 0 THEN last_update_id + n - 1
                             ELSE last_update_id
    /\ pc' = "handle"
    /\ UNCHANGED <<TELEGRAM_TOKEN, ADMIN_CHAT_ID, user_carts, user_sessions,
                   order_tracking, clock, ev, out>>

(* get_updates(last_update_id): n updates with the ids from the offset on; *)
(* a non-empty result moves the cursor past its highest id.               *)
GetUpdates(lim) ==
    /\ pc = "poll"
    /\ \E n \in 0..lim.max_batch :
        /\ last_update_id + n <= lim.max_update_id
        /\ batch' = [i \in 1..n |-> last_update_id + i - 1]
        /\ last_update_id' = IF n > 0 THEN (last_update_id + n - 1) + 1
                             ELSE last_update_id
    /\ pc' = "handle"
    /\ UNCHANGED <<TELEGRAM_TOKEN, ADMIN_CHAT_ID, user_carts, user_sessions,
                   order_tracking, clock, ev, out>>

(* Quantities and the clock stay within the bounds. *)
WithinBounds(lim, st) ==
    /\ st.clock <= lim.max_clock
    /\ \A c \in DOMAIN st.carts : \A n \in DOMAIN st.carts[c] :
            st.carts[c][n].quantity <= lim.max_qty

(* The globals after handling the first update of the batch. *)
Handled(lim, st, event) ==
    /\ WithinBounds(lim, st)
    /\ user_carts' = st.carts
    /\ user_sessions' = st.sessions
    /\ order_tracking' = st.orders
    /\ clock' = st.clock
    /\ out' = st.out
    /\ ev' = event
    /\ batch' = Tail(batch)
    /\ UNCHANGED <<TELEGRAM_TOKEN, ADMIN_CHAT_ID, last_update_id, pc>>

(* main(): an update with a message text goes to handle_message. *)
MessageUpdate(lim, chat_id, text, insert_ok, conf_ok) ==
    /\ pc = "handle"
    /\ batch # <<>>
    /\ Handled(lim,
               handle_message(Cur, ADMIN_CHAT_ID, chat_id, text, insert_ok, conf_ok),
               [kind |-> "message", chat_id |-> chat_id, data |-> text,
                insert_ok |-> insert_ok, conf_ok |-> conf_ok])

(* main(): an update with a callback_query goes to handle_callback_query. *)
CallbackUpdate(lim, chat_id, callback_data) ==
    /\ pc = "handle"
    /\ batch # <<>>
    /\ Handled(lim,
               handle_callback_query(Cur, ADMIN_CHAT_ID, chat_id, callback_data),
               [kind |-> "callback", chat_id |-> chat_id, data |-> callback_data,
                insert_ok |-> TRUE, conf_ok |-> TRUE])

(* main(): any other update is passed over. *)
SkipUpdate(lim) ==
    /\ pc = "handle"
    /\ batch # <<>>
    /\ Handled(lim, Cur, [NoEvent EXCEPT !.kind = "other"])

(* The outcomes complete_order reads matter only to an instructions text. *)
Outcomes(chat_id) ==
    IF step_of(user_sessions, chat_id) = "awaiting_instructions"
    THEN BOOLEAN \X BOOLEAN
    ELSE {<<TRUE, TRUE>>}

(* messages: the (chat_id, text) pairs the users may send. *)
HandleMessage(lim, messages) ==
    \E m \in messages :
        \E o \in Outcomes(m[1]) : MessageUpdate(lim, m[1], m[2], o[1], o[2])

(* callbacks: the (chat_id, callback_data) pairs the users may send. *)
HandleCallback(lim, callbacks) ==
    \E c \in callbacks : CallbackUpdate(lim, c[1], c[2])

(* main(): time.sleep(1) once the batch is handled, then the next poll. *)
Sleep(lim) ==
    /\ pc = "handle"
    /\ batch = <<>>
    /\ clock < lim.max_clock
    /\ clock' = clock + 1
    /\ pc' = "poll"
    /\ UNCHANGED <<TELEGRAM_TOKEN, ADMIN_CHAT_ID, user_carts, user_sessions,
                   order_tracking, last_update_id, batch, ev, out>>

(* Time passing while the loop polls or handles. *)
Tick(lim) ==
    /\ pc \in {"poll", "handle"}
    /\ clock < lim.max_clock
    /\ clock' = clock + 1
    /\ UNCHANGED <<TELEGRAM_TOKEN, ADMIN_CHAT_ID, user_carts, user_sessions,
                   order_tracking, last_update_id, pc, batch, ev, out>>

(* main() fed with the given message and callback updates. *)
NextOver(lim, messages, callbacks) ==
    \/ Boot
    \/ GetUpdates(lim)
    \/ HandleMessage(lim, messages)
    \/ HandleCallback(lim, callbacks)
    \/ SkipUpdate(lim)
    \/ Sleep(lim)
    \/ Tick(lim)

----------------------------------------------------------------------------
(* Bounds and input alphabets *)

TxtAna == <<"A", "n", "a">>
TxtNone == <<"N", "o", "n", "e">>
ItemUnknown == <<"D", "u", "r", "i", "a", "n">>

Users == {1, 2}
AdminIds == {Unset, str(1)}

(* The operator payloads for the given order ids. *)
AdminCallbacks(order_ids) ==
    {p \o id : p \in {PfxShip, PfxCancel, PfxDeliver}, id \in order_ids}

(* Spec: both users, the checkout texts, one item, and the operator      *)
(* payloads for the order id of second 1 (a batch holds fewer updates     *)
(* than a checkout takes, so no order is created in second 0).            *)
MaxClock == 2
MaxQty == 2
MaxUpdateId == 8
MaxBatch == 3
Texts == {CmdCheckout, CmdClearCart, TxtAna}
Callbacks ==
    {PfxAdd \o ItemBeefSteak}
    \cup AdminCallbacks({generate_order_id(1)})

Init == InitOver(BOOLEAN, AdminIds)

Next == NextOver(Limits(MaxClock, MaxQty, MaxUpdateId, MaxBatch),
                 Users \X Texts, Users \X Callbacks)

Spec == Init /\ [][Next]_vars

(* SpecCart: one user filling a cart with two items, viewing it and       *)
(* checking out; subtotals fall on both sides of the free-delivery         *)
(* threshold (2 x 24.99 = 49.98, 2 x 24.99 + 1.99 = 51.97).               *)
CartUsers == {1}
CartTexts == {CmdMyCart, CmdCheckout, CmdClearCart, TxtAna}
CartCallbacks == {PfxAdd \o ItemBeefSteak, PfxAdd \o ItemBananas, PfxAdd \o ItemUnknown}

InitCart == InitOver({TRUE}, {Unset})

NextCart == NextOver(Limits(MaxClock, MaxQty, MaxUpdateId, MaxBatch),
                     CartUsers \X CartTexts, CartUsers \X CartCallbacks)

SpecCart == InitCart /\ [][NextCart]_vars

(* SpecDialogue: one user, from module load, sends the seven updates of  *)
(* a whole order in turn: shop, add one catalog item, checkout, name,     *)
(* phone, address, and "none" in some letter case as the instructions.    *)
Txt555 == <<"5", "5", "5">>
TxtX == <<"X">>
DialogueTexts == {TxtAna, Txt555, TxtX, CmdStart, CmdCheckout, TxtNone}
NoneTexts ==
    {<<"n", "o", "n", "e">>, TxtNone, <<"N", "O", "N", "E">>, <<"n", "O", "n", "E">>}
CatalogItems ==
    UNION {DOMAIN grocery_categories[cat] : cat \in DOMAIN grocery_categories}

(* The number of updates handled so far. *)
DialoguePos == last_update_id - Len(batch)

DialogueShop(lim) ==
    /\ DialoguePos = 0
    /\ \E u \in Users : MessageUpdate(lim, u, CmdShop, TRUE, TRUE)

DialogueAdd(lim) ==
    /\ DialoguePos = 1
    /\ \E item \in CatalogItems : CallbackUpdate(lim, ev.chat_id, PfxAdd \o item)

DialogueCheckout(lim) ==
    /\ DialoguePos = 2
    /\ MessageUpdate(lim, ev.chat_id, CmdCheckout, TRUE, TRUE)

DialogueDetails(lim) ==
    /\ DialoguePos \in {3, 4, 5}
    /\ \E t \in DialogueTexts : MessageUpdate(lim, ev.chat_id, t, TRUE, TRUE)

DialogueInstructions(lim) ==
    /\ DialoguePos = 6
    /\ \E t \in NoneTexts : \E conf_ok \in BOOLEAN :
            MessageUpdate(lim, ev.chat_id, t, TRUE, conf_ok)

InitDialogue == InitOver({TRUE}, AdminIds)

NextDialogueOver(lim) ==
    \/ Boot
    \/ GetUpdates(lim)
    \/ DialogueShop(lim)
    \/ DialogueAdd(lim)
    \/ DialogueCheckout(lim)
    \/ DialogueDetails(lim)
    \/ DialogueInstructions(lim)
    \/ Sleep(lim)
    \/ Tick(lim)

NextDialogue == NextDialogueOver(Limits(MaxClock, MaxQty, MaxUpdateId, MaxBatch))

SpecDialogue == InitDialogue /\ [][NextDialogue]_vars

(* SpecOperator: the users order one at a time (one item, the five texts *)
(* of the checkout), and between two orders anyone may send operator      *)
(* payloads and reason texts, for order ids in and out of the ledger.     *)
OpMaxClock == 2
OpMaxQty == 1
OpMaxUpdateId == 15
OpMaxBatch == 6
OpMaxOrders == 2
OpOrderIds == {generate_order_id(0), generate_order_id(1), PfxOrd \o TxtX}

(* No cart holds an item: no order is being made. *)
NoOpenCart ==
    \A c \in DOMAIN user_carts : user_carts[c] = EmptyDict

(* The text a user in the given step sends next on the way to an order. *)
OrderText(step) ==
    CASE step = "awaiting_name" -> TxtAna
      [] step = "awaiting_phone" -> Txt555
      [] step = "awaiting_address" -> TxtX
      [] step = "awaiting_instructions" -> TxtNone
      [] OTHER -> CmdCheckout

OrderAdd(lim) ==
    /\ NoOpenCart
    /\ Cardinality(DOMAIN order_tracking) < OpMaxOrders
    /\ \E u \in Users : CallbackUpdate(lim, u, PfxAdd \o ItemBeefSteak)

OrderStep(lim) ==
    \E u \in DOMAIN user_carts :
        /\ user_carts[u] # EmptyDict
        /\ MessageUpdate(lim, u, OrderText(step_of(user_sessions, u)), TRUE, TRUE)

OperatorCallback(lim) ==
    /\ NoOpenCart
    /\ \E u \in Users : \E payload \in AdminCallbacks(OpOrderIds) :
            CallbackUpdate(lim, u, payload)

OperatorText(lim) ==
    /\ NoOpenCart
    /\ \E u \in Users : MessageUpdate(lim, u, TxtAna, TRUE, TRUE)

InitOperator == InitOver({TRUE}, {str(1)})

NextOperatorOver(lim) ==
    \/ Boot
    \/ GetUpdates(lim)
    \/ OrderAdd(lim)
    \/ OrderStep(lim)
    \/ OperatorCallback(lim)
    \/ OperatorText(lim)
    \/ Sleep(lim)
    \/ Tick(lim)

NextOperator ==
    NextOperatorOver(Limits(OpMaxClock, OpMaxQty, OpMaxUpdateId, OpMaxBatch))

SpecOperator == InitOperator /\ [][NextOperator]_vars

(* SpecRush: a long first batch, so that both users can check out within  *)
(* the same second, with the fewest texts that need.                      *)
RushMaxClock == 1
RushMaxQty == 1
RushMaxUpdateId == 13
RushMaxBatch == 13
RushTexts == {CmdCheckout, TxtAna}
RushCallbacks ==
    {PfxAdd \o ItemBeefSteak} \cup AdminCallbacks({generate_order_id(0)})

InitRush == InitOver({TRUE}, {str(1)})

NextRush == NextOver(Limits(RushMaxClock, RushMaxQty, RushMaxUpdateId, RushMaxBatch),
                     Users \X RushTexts, Users \X RushCallbacks)

SpecRush == InitRush /\ [][NextRush]_vars

----------------------------------------------------------------------------
(* Properties *)

(* This step handles an update: ev' is the update, the unprimed variables *)
(* are the globals before it and the primed ones the globals after it.    *)
HandlesUpdate == pc = "handle" /\ batch # <<>> /\ batch' = Tail(batch)

(* This step handles a text from a user whose step is s. *)
HandlesTextAt(s) ==
    /\ HandlesUpdate
    /\ ev'.kind = "message"
    /\ step_of(user_sessions, ev'.chat_id) = s

(* The sender of the update handled in this step is the configured operator. *)
SenderIsOperator == ADMIN_CHAT_ID # Unset /\ str(ev'.chat_id) = ADMIN_CHAT_ID

(* The subtotal of a cart snapshot, line by line over the catalog. *)
LineTotal(cart, name) ==
    IF name \in DOMAIN cart THEN cart[name].price * cart[name].quantity ELSE 0

ExpectedSubtotal(cart) ==
    LineTotal(cart, ItemApples) + LineTotal(cart, ItemBananas)
    + LineTotal(cart, ItemCarrots) + LineTotal(cart, ItemSpinach)
    + LineTotal(cart, ItemTomatoes) + LineTotal(cart, ItemChickenBreast)
    + LineTotal(cart, ItemBeefSteak) + LineTotal(cart, ItemSalmonFillet)
    + LineTotal(cart, ItemBacon) + LineTotal(cart, ItemMilk)
    + LineTotal(cart, ItemCheese) + LineTotal(cart, ItemEggs)
    + LineTotal(cart, ItemButter)

ExpectedFee(subtotal) == IF subtotal >= 5000 THEN 0 ELSE 500

(* The cart of chat_id, empty when the user has none. *)
CartOf(carts, chat_id) ==
    IF chat_id \in DOMAIN carts THEN carts[chat_id] ELSE EmptyDict

(* C1: the status and updated_at of an existing ledger order change only  *)
(* while an update sent by the configured operator is handled, and no     *)
(* user but the operator is ever in step awaiting_cancel_reason.          *)
C1_OnlyOperatorChangesStatus ==
    /\ [][(\E id \in DOMAIN order_tracking :
                \/ id \notin DOMAIN order_tracking'
                \/ order_tracking'[id].status # order_tracking[id].status
                \/ order_tracking'[id].updated_at # order_tracking[id].updated_at)
            => (HandlesUpdate /\ SenderIsOperator)]_vars
    /\ [](\A c \in DOMAIN user_sessions :
            step_of(user_sessions, c) = "awaiting_cancel_reason"
                => (ADMIN_CHAT_ID # Unset /\ str(c) = ADMIN_CHAT_ID))

(* C2: every successful order completion adds an entry under an order id  *)
(* no earlier order has, so the ledger grows by one entry each time.      *)
C2_UniqueOrderId ==
    [][(HandlesTextAt("awaiting_instructions") /\ ev'.insert_ok)
        => /\ Cardinality(DOMAIN order_tracking')
                = Cardinality(DOMAIN order_tracking) + 1
           /\ DOMAIN order_tracking \subseteq DOMAIN order_tracking']_vars

(* C3: every ledger order has total = subtotal + delivery fee, with the   *)
(* subtotal the sum of price x quantity over its cart snapshot and the    *)
(* fee 0 when the subtotal is at least 50.00 and 5.00 otherwise; the cart *)
(* view shows the same three figures for the live cart.                   *)
C3_TotalIsSubtotalPlusFee ==
    /\ \A id \in DOMAIN order_tracking :
        LET subtotal == ExpectedSubtotal(order_tracking[id].cart)
        IN  order_tracking[id].total = subtotal + ExpectedFee(subtotal)
    /\ \A i \in DOMAIN out :
        out[i].tmpl = "Your Cart" =>
            LET subtotal == ExpectedSubtotal(CartOf(user_carts, ev.chat_id))
            IN  out[i].nums = <<subtotal, ExpectedFee(subtotal),
                                subtotal + ExpectedFee(subtotal)>>

(* An order of two cart lines whose subtotal earns free delivery. *)
C3_Witness ==
    \E id \in DOMAIN order_tracking :
        /\ Cardinality(DOMAIN order_tracking[id].cart) = 2
        /\ ExpectedSubtotal(order_tracking[id].cart) >= 5000
        /\ order_tracking[id].total = ExpectedSubtotal(order_tracking[id].cart)

CheckoutSteps ==
    {"awaiting_name", "awaiting_phone", "awaiting_address", "awaiting_instructions"}

(* C4: no ledger order has an empty cart snapshot, and every user whose   *)
(* step is awaiting_name, awaiting_phone, awaiting_address or             *)
(* awaiting_instructions has a non-empty cart.                            *)
C4_NoOrderFromEmptyCart ==
    /\ \A id \in DOMAIN order_tracking : order_tracking[id].cart # EmptyDict
    /\ \A c \in DOMAIN user_sessions :
        step_of(user_sessions, c) \in CheckoutSteps
            => CartOf(user_carts, c) # EmptyDict

(* An order was completed, and its user, the cart emptied by the          *)
(* completion and refilled, is in the checkout dialogue again.            *)
C4_Witness ==
    \E id \in DOMAIN order_tracking :
        LET c == order_tracking[id].chat_id
        IN  /\ step_of(user_sessions, c) \in CheckoutSteps
            /\ CartOf(user_carts, c) # EmptyDict

(* The update being handled is the checkout command of a user whose cart  *)
(* is missing or empty.                                                   *)
CheckoutOnEmptyCart ==
    /\ HandlesUpdate
    /\ ev'.kind = "message"
    /\ ev'.data = CmdCheckout
    /\ CartOf(user_carts, ev'.chat_id) = EmptyDict

CheckoutRefused ==
    /\ step_of(user_sessions', ev'.chat_id) = step_of(user_sessions, ev'.chat_id)
    /\ CartOf(user_carts', ev'.chat_id) = EmptyDict
    /\ DOMAIN order_tracking' = DOMAIN order_tracking

(* C5 as stated: the checkout command of a user with a missing or empty   *)
(* cart leaves the session step unchanged, the cart empty and the ledger  *)
(* without a new order, whatever the step of the sender.                  *)
C5_CheckoutRefusedInAnyStep ==
    [][CheckoutOnEmptyCart => CheckoutRefused]_vars

(* C5: the checkout command of a user with a missing or empty cart whose  *)
(* step is not awaiting_cancel_reason leaves the session step unchanged,  *)
(* the cart empty and the ledger without a new order.                     *)
C5_CheckoutRefusedOnEmptyCart ==
    [][(CheckoutOnEmptyCart
            /\ step_of(user_sessions, ev'.chat_id) # "awaiting_cancel_reason")
        => CheckoutRefused]_vars

(* The checkout command of a user whose cart a completed order emptied    *)
(* was answered with the empty-cart message.                              *)
C5_Witness ==
    /\ ev.kind = "message"
    /\ ev.data = CmdCheckout
    /\ ev.chat_id \in DOMAIN user_carts
    /\ user_carts[ev.chat_id] = EmptyDict
    /\ step_of(user_sessions, ev.chat_id) = "main_menu"
    /\ \E id \in DOMAIN order_tracking : order_tracking[id].chat_id = ev.chat_id
    /\ out = <<Msg(str(ev.chat_id), "Your cart is empty!", <<>>, <<>>, <<>>)>>

(* C6: handling an instructions text changes the user's cart or session   *)
(* only if the ledger then holds an order of that user with the cart as   *)
(* it was before; a successful insert leaves the cart empty and the step  *)
(* main_menu; a failed insert leaves carts, sessions (step                *)
(* awaiting_instructions) and ledger unchanged.                           *)
C6_ClearOnlyAfterInsert ==
    [][HandlesTextAt("awaiting_instructions") =>
        LET c == ev'.chat_id
            recorded ==
                \E id \in DOMAIN order_tracking' :
                    /\ order_tracking'[id].chat_id = c
                    /\ order_tracking'[id].cart = CartOf(user_carts, c)
        IN  /\ (user_carts' # user_carts \/ user_sessions' # user_sessions)
                => recorded
            /\ ev'.insert_ok
                => /\ recorded
                   /\ CartOf(user_carts', c) = EmptyDict
                   /\ step_of(user_sessions', c) = "main_menu"
            /\ ~ev'.insert_ok
                => /\ user_carts' = user_carts
                   /\ user_sessions' = user_sessions
                   /\ order_tracking' = order_tracking
                   /\ step_of(user_sessions', c) = "awaiting_instructions"]_vars

(* An instructions text whose insert failed: the user was told so and     *)
(* keeps the cart and the step.                                           *)
C6_Witness ==
    /\ ev.kind = "message"
    /\ ~ev.insert_ok
    /\ step_of(user_sessions, ev.chat_id) = "awaiting_instructions"
    /\ CartOf(user_carts, ev.chat_id) # EmptyDict
    /\ Len(out) = 2
    /\ out[1].tmpl = "Error saving your order. Please try again."
    /\ out[2].tmpl = "Order failed. Please try again."

(* C7: in the dialogue shop, add one catalog item, checkout, name, phone, *)
(* address, "none" in any letter case, sent by a user with no session and *)
(* no cart: the ledger stays empty up to the last text; each of the three *)
(* detail texts is stored as typed; the last text leaves exactly one      *)
(* order, Pending, of that user, with the stored name, phone and address  *)
(* and the one-line cart, passes empty instructions to the sheet, empties *)
(* the cart and sets the step to main_menu.                               *)
C7_DialogueCreatesOneOrder ==
    [][HandlesUpdate =>
        LET c == ev'.chat_id
            s == user_sessions[c]
            t == user_sessions'[c]
        IN  /\ DialoguePos = 0
                => c \notin DOMAIN user_sessions /\ c \notin DOMAIN user_carts
            /\ DialoguePos < 6 => order_tracking' = EmptyDict
            /\ DialoguePos = 1
                => /\ DOMAIN user_carts'[c] = {slice_from(ev'.data, 4)}
                   /\ \A n \in DOMAIN user_carts'[c] : user_carts'[c][n].quantity = 1
            /\ DialoguePos = 2 => t = [step |-> "awaiting_name"]
            /\ DialoguePos = 3
                => t = [step |-> "awaiting_phone", customer_name |-> ev'.data]
            /\ DialoguePos = 4
                => t = [step |-> "awaiting_address",
                        customer_name |-> s.customer_name, phone |-> ev'.data]
            /\ DialoguePos = 5
                => t = [step |-> "awaiting_instructions",
                        customer_name |-> s.customer_name, phone |-> s.phone,
                        address |-> ev'.data]
            /\ DialoguePos = 6
                => /\ Cardinality(DOMAIN order_tracking') = 1
                   /\ \A id \in DOMAIN order_tracking' :
                        /\ order_tracking'[id].status = "Pending"
                        /\ order_tracking'[id].chat_id = c
                        /\ order_tracking'[id].customer_name = s.customer_name
                        /\ order_tracking'[id].phone = s.phone
                        /\ order_tracking'[id].address = s.address
                        /\ order_tracking'[id].cart = user_carts[c]
                        /\ Cardinality(DOMAIN order_tracking'[id].cart) = 1
                        /\ \E i \in DOMAIN out' :
                            /\ out'[i].tmpl = "save_order_to_sheet"
                            /\ out'[i].order_id = id
                            /\ out'[i].note = <<>>
                   /\ user_carts'[c] = EmptyDict
                   /\ t = [step |-> "main_menu"]]_vars

(* The dialogue is over, its last text being "none" with capitals. *)
C7_Witness ==
    /\ DialoguePos = 7
    /\ ev.kind = "message"
    /\ ev.data # lower(ev.data)
    /\ lower(ev.data) = <<"n", "o", "n", "e">>
    /\ Cardinality(DOMAIN order_tracking) = 1
    /\ user_carts[ev.chat_id] = EmptyDict
    /\ step_of(user_sessions, ev.chat_id) = "main_menu"

StatusTemplates == {"Order Shipped", "Order Cancelled", "Order Delivered"}

IsStatusNotification(m) == m.tmpl \in StatusTemplates

IsSuccessReport(m) ==
    m.tmpl \in {"marked as shipped", "marked as delivered", "Order cancelled!"}

TemplateOf(status) ==
    CASE status = "Shipped" -> "Order Shipped"
      [] status = "Cancelled" -> "Order Cancelled"
      [] status = "Delivered" -> "Order Delivered"

(* The call update_order_status(order_id, new_status, ...) made while the *)
(* update is handled, as <<order_id, new_status>>; <<>> when none is made. *)
UpdateCall ==
    IF ~HandlesUpdate THEN <<>>
    ELSE IF ev'.kind = "callback" /\ SenderIsOperator
            /\ startswith(ev'.data, PfxShip)
    THEN <<slice_from(ev'.data, 5), "Shipped">>
    ELSE IF ev'.kind = "callback" /\ SenderIsOperator
            /\ startswith(ev'.data, PfxDeliver)
    THEN <<slice_from(ev'.data, 8), "Delivered">>
    ELSE IF ev'.kind = "message"
            /\ step_of(user_sessions, ev'.chat_id) = "awaiting_cancel_reason"
            /\ user_sessions[ev'.chat_id].order_id # <<>>
    THEN <<user_sessions[ev'.chat_id].order_id, "Cancelled">>
    ELSE <<>>

(* C8: update_order_status on an order id in the ledger sets that order's *)
(* status to the requested one and its updated_at to the current time,    *)
(* leaves every other order and field as it was, and sends exactly one    *)
(* status notification, to the chat_id stored in the order, with the      *)
(* template of the new status.                                            *)
C8_UpdateKnownOrder ==
    [][(UpdateCall # <<>> /\ UpdateCall[1] \in DOMAIN order_tracking) =>
        LET id == UpdateCall[1]
            new_status == UpdateCall[2]
            notes == SelectSeq(out', IsStatusNotification)
        IN  /\ order_tracking' =
                    [order_tracking EXCEPT ![id].status = new_status,
                                           ![id].updated_at = clock']
            /\ Len(notes) = 1
            /\ notes[1].to = str(order_tracking[id].chat_id)
            /\ notes[1].tmpl = TemplateOf(new_status)
            /\ notes[1].order_id = id]_vars

(* The operator shipped, after the second it was made in, the order of    *)
(* another user; the ledger holds a second order, still Pending.          *)
C8_Witness ==
    \E id \in DOMAIN order_tracking : \E other \in DOMAIN order_tracking :
        /\ other # id
        /\ ev.kind = "callback"
        /\ ev.data = PfxShip \o id
        /\ str(ev.chat_id) = ADMIN_CHAT_ID
        /\ order_tracking[id].chat_id # ev.chat_id
        /\ order_tracking[id].status = "Shipped"
        /\ order_tracking[id].updated_at > order_tracking[id].created_at
        /\ order_tracking[other].status = "Pending"
        /\ out[1].tmpl = "Order Shipped"
        /\ out[1].to = str(order_tracking[id].chat_id)

(* C9: update_order_status on an order id not in the ledger returns       *)
(* failure (no success is reported to the caller), leaves the whole       *)
(* ledger unchanged and sends no customer notification.                   *)
C9_UpdateUnknownOrder ==
    /\ [](\A id \in OpOrderIds \ DOMAIN order_tracking :
            \A new_status \in {"Shipped", "Cancelled", "Delivered"} :
                update_order_status(Cur, id, new_status, TxtAna) = Ret(Cur, FALSE))
    /\ [][(UpdateCall # <<>> /\ UpdateCall[1] \notin DOMAIN order_tracking) =>
            /\ order_tracking' = order_tracking
            /\ SelectSeq(out', IsStatusNotification) = <<>>
            /\ SelectSeq(out', IsSuccessReport) = <<>>]_vars

(* The operator asked to deliver an order id the non-empty ledger does    *)
(* not hold, and was told it was not found.                               *)
C9_Witness ==
    /\ ev.kind = "callback"
    /\ startswith(ev.data, PfxDeliver)
    /\ str(ev.chat_id) = ADMIN_CHAT_ID
    /\ slice_from(ev.data, 8) \notin DOMAIN order_tracking
    /\ order_tracking # EmptyDict
    /\ out = <<Msg(ADMIN_CHAT_ID, "not found", slice_from(ev.data, 8), <<>>, <<>>)>>

(* The operator action being handled, as <<order_id>>: a ship_ or         *)
(* deliver_ payload, or the reason text that follows a cancel_ payload.   *)
OperatorAction ==
    IF ~HandlesUpdate \/ ~SenderIsOperator THEN <<>>
    ELSE IF ev'.kind = "callback" /\ startswith(ev'.data, PfxShip)
    THEN <<slice_from(ev'.data, 5)>>
    ELSE IF ev'.kind = "callback" /\ startswith(ev'.data, PfxDeliver)
    THEN <<slice_from(ev'.data, 8)>>
    ELSE IF ev'.kind = "message"
            /\ step_of(user_sessions, ev'.chat_id) = "awaiting_cancel_reason"
    THEN <<user_sessions[ev'.chat_id].order_id>>
    ELSE <<>>

(* C10: every operator action on an order id that is not in the ledger    *)
(* sends the operator a not-found message and leaves the ledger as it was. *)
C10_UnknownOrderIsReported ==
    [][(OperatorAction # <<>> /\ OperatorAction[1] \notin DOMAIN order_tracking) =>
        /\ order_tracking' = order_tracking
        /\ \E i \in DOMAIN out' :
            /\ out'[i].to = ADMIN_CHAT_ID
            /\ out'[i].tmpl = "not found"]_vars

(* The operator's cancel_ payload is being handled. *)
CancelRequested ==
    /\ HandlesUpdate
    /\ SenderIsOperator
    /\ ev'.kind = "callback"
    /\ startswith(ev'.data, PfxCancel)

(* The reason text for an order in the ledger is being handled. *)
CancelReasonGiven ==
    /\ HandlesTextAt("awaiting_cancel_reason")
    /\ user_sessions[ev'.chat_id].order_id \in DOMAIN order_tracking

IsCancelNotification(m) == m.tmpl = "Order Cancelled"

(* C11: the operator's cancel_<id> payload leaves the ledger unchanged    *)
(* and asks for the reason; the reason text that follows, for an order in *)
(* the ledger, sets the order's status to Cancelled, sends exactly one    *)
(* Cancelled notification, to the order's user and holding the reason     *)
(* text, and leaves the operator's step main_menu.                        *)
C11_CancelWithReason ==
    [][/\ CancelRequested =>
            /\ order_tracking' = order_tracking
            /\ user_sessions'[ev'.chat_id] =
                    [step |-> "awaiting_cancel_reason",
                     order_id |-> slice_from(ev'.data, 7)]
       /\ CancelReasonGiven =>
            LET id == user_sessions[ev'.chat_id].order_id
                notes == SelectSeq(out', IsCancelNotification)
            IN  /\ order_tracking'[id].status = "Cancelled"
                /\ Len(notes) = 1
                /\ notes[1].to = str(order_tracking[id].chat_id)
                /\ notes[1].order_id = id
                /\ notes[1].note = ev'.data
                /\ SelectSeq(out', IsStatusNotification) = notes
                /\ step_of(user_sessions', ev'.chat_id) = "main_menu"]_vars

(* The operator's reason text cancelled another user's order, who was     *)
(* sent the reason.                                                       *)
C11_Witness ==
    \E id \in DOMAIN order_tracking :
        /\ ev.kind = "message"
        /\ str(ev.chat_id) = ADMIN_CHAT_ID
        /\ order_tracking[id].chat_id # ev.chat_id
        /\ order_tracking[id].status = "Cancelled"
        /\ step_of(user_sessions, ev.chat_id) = "main_menu"
        /\ Len(out) = 2
        /\ out[1] = Msg(str(order_tracking[id].chat_id), "Order Cancelled", id,
                        ev.data, <<>>)
        /\ out[2].tmpl = "Order cancelled!"

TerminalStatuses == {"Delivered", "Cancelled"}

(* C12: an operator action (ship_, deliver_, or a reason text after       *)
(* cancel_) on an order whose status is Delivered or Cancelled leaves the *)
(* status as it is and sends no status notification.                      *)
C12_TerminalStatuses ==
    [][(/\ UpdateCall # <<>>
        /\ UpdateCall[1] \in DOMAIN order_tracking
        /\ order_tracking[UpdateCall[1]].status \in TerminalStatuses)
        => /\ order_tracking'[UpdateCall[1]].status
                = order_tracking[UpdateCall[1]].status
           /\ SelectSeq(out', IsStatusNotification) = <<>>]_vars

HandledOnce(chat_id, text) ==
    handle_message(Cur, ADMIN_CHAT_ID, chat_id, text, TRUE, TRUE)

HandledTwice(chat_id, text) ==
    handle_message([HandledOnce(chat_id, text) EXCEPT !.out = <<>>],
                   ADMIN_CHAT_ID, chat_id, text, TRUE, TRUE)

(* C14: in every reachable state, handling a text message twice in a row  *)
(* leaves the sessions, the carts and the ledger as handling it once.     *)
C14_DuplicateTextIsHarmless ==
    \A u \in Users : \A text \in Texts :
        /\ HandledTwice(u, text).sessions = HandledOnce(u, text).sessions
        /\ HandledTwice(u, text).carts = HandledOnce(u, text).carts
        /\ HandledTwice(u, text).orders = HandledOnce(u, text).orders

(* The update being handled is an item-select payload. *)
ItemSelected ==
    /\ HandlesUpdate
    /\ ev'.kind = "callback"
    /\ startswith(ev'.data, PfxAdd)

(* C15: an item-select for a catalog item leaves the user's cart with one *)
(* line for that item, its quantity one more than before (1 when the item *)
(* was not in the cart) and the catalog's price and unit, the other lines *)
(* as they were; and every cart line has a quantity of at least 1.        *)
C15_RepeatedAddCountsUp ==
    /\ [][(ItemSelected /\ slice_from(ev'.data, 4) \in CatalogItems) =>
            LET item == slice_from(ev'.data, 4)
                old == CartOf(user_carts, ev'.chat_id)
                new == CartOf(user_carts', ev'.chat_id)
            IN  /\ DOMAIN new = DOMAIN old \cup {item}
                /\ new[item].quantity =
                        (IF item \in DOMAIN old THEN old[item].quantity ELSE 0) + 1
                /\ \E cat \in DOMAIN grocery_categories :
                        /\ item \in DOMAIN grocery_categories[cat]
                        /\ new[item].price = grocery_categories[cat][item].price
                        /\ new[item].unit = grocery_categories[cat][item].unit
                /\ \A n \in DOMAIN old \ {item} : new[n] = old[n]]_vars
    /\ [](\A c \in DOMAIN user_carts : \A n \in DOMAIN user_carts[c] :
            user_carts[c][n].quantity >= 1)

(* The same item was selected a second time: one line, quantity 2. *)
C15_Witness ==
    /\ ev.kind = "callback"
    /\ ev.data = PfxAdd \o ItemBeefSteak
    /\ DOMAIN user_carts[ev.chat_id] = {ItemBeefSteak}
    /\ user_carts[ev.chat_id][ItemBeefSteak] =
            [price |-> 2499, unit |-> "kg", quantity |-> 2]

AwaitingSteps == CheckoutSteps \cup {"awaiting_cancel_reason"}

MenuTexts ==
    {CmdStart, CmdShop, CmdMyCart, CmdTrackOrder, CmdCheckout, CmdClearCart,
     CmdContinueShopping, CmdMainMenu} \cup DOMAIN grocery_categories

(* Texts that are no menu command and no category name. *)
OtherTexts ==
    {TxtAna, Txt555, TxtX, TxtNone, lower(CmdCheckout), lower(CatDairyEggs),
     CmdStart \o TxtX, ItemBeefSteak} \ MenuTexts

IsErrorMessage(m) == m.tmpl = "An error occurred. Please try /start"

(* C16: for a user whose step is none of the awaiting_* steps, a text     *)
(* that is no menu command and no category name sets the step to          *)
(* main_menu and leaves the carts and the ledger unchanged; and handling  *)
(* a text never ends in the error message.                                *)
C16_UnknownTextShowsMenu ==
    /\ [](\A u \in Users : \A text \in OtherTexts :
            step_of(user_sessions, u) \notin AwaitingSteps =>
                LET st == handle_message(Cur, ADMIN_CHAT_ID, u, text, TRUE, TRUE)
                IN  /\ step_of(st.sessions, u) = "main_menu"
                    /\ st.carts = user_carts
                    /\ st.orders = order_tracking
                    /\ st.out = <<Msg(str(u), "Welcome", <<>>, <<>>, <<>>)>>)
    /\ [][(HandlesUpdate /\ ev'.kind = "message") =>
            /\ SelectSeq(out', IsErrorMessage) = <<>>
            /\ (/\ step_of(user_sessions, ev'.chat_id) \notin AwaitingSteps
                /\ ev'.data \notin MenuTexts)
                => /\ step_of(user_sessions', ev'.chat_id) = "main_menu"
                   /\ user_carts' = user_carts
                   /\ order_tracking' = order_tracking]_vars

(* A user with items in the cart and no session sent a name out of any    *)
(* dialogue and was shown the welcome menu, the cart kept.                *)
C16_Witness ==
    /\ ev.kind = "message"
    /\ ev.data = TxtAna
    /\ out = <<Msg(str(ev.chat_id), "Welcome", <<>>, <<>>, <<>>)>>
    /\ user_sessions[ev.chat_id] = [step |-> "main_menu"]
    /\ CartOf(user_carts, ev.chat_id) # EmptyDict
    /\ order_tracking # EmptyDict

(* The fields a session holds at each step of the checkout dialogue. *)
FieldsAt(step) ==
    CASE step = "awaiting_name" -> {"step"}
      [] step = "awaiting_phone" -> {"step", "customer_name"}
      [] step = "awaiting_address" -> {"step", "customer_name", "phone"}
      [] step = "awaiting_instructions" ->
            {"step", "customer_name", "phone", "address"}

(* The step that precedes the given one in the dialogue. *)
StepBefore(step) ==
    CASE step = "awaiting_phone" -> "awaiting_name"
      [] step = "awaiting_address" -> "awaiting_phone"
      [] step = "awaiting_instructions" -> "awaiting_address"

(* C17: a session at a step of the checkout dialogue holds exactly the    *)
(* fields collected so far; a text at awaiting_name, awaiting_phone or    *)
(* awaiting_address is stored in the field of that step, the earlier      *)
(* fields kept, and moves the session one step on; a step after           *)
(* awaiting_name is entered only that way; and the order created at       *)
(* awaiting_instructions carries the name, phone and address of the       *)
(* session.                                                               *)
C17_DialogueCollectsFields ==
    /\ [](\A c \in DOMAIN user_sessions :
            step_of(user_sessions, c) \in CheckoutSteps
                => DOMAIN user_sessions[c] = FieldsAt(user_sessions[c].step))
    /\ [][/\ HandlesTextAt("awaiting_name") =>
                user_sessions'[ev'.chat_id] =
                    [step |-> "awaiting_phone", customer_name |-> ev'.data]
          /\ HandlesTextAt("awaiting_phone") =>
                user_sessions'[ev'.chat_id] =
                    [step |-> "awaiting_address",
                     customer_name |-> user_sessions[ev'.chat_id].customer_name,
                     phone |-> ev'.data]
          /\ HandlesTextAt("awaiting_address") =>
                user_sessions'[ev'.chat_id] =
                    [step |-> "awaiting_instructions",
                     customer_name |-> user_sessions[ev'.chat_id].customer_name,
                     phone |-> user_sessions[ev'.chat_id].phone,
                     address |-> ev'.data]
          /\ (HandlesTextAt("awaiting_instructions") /\ ev'.insert_ok) =>
                \E id \in DOMAIN order_tracking' :
                    /\ order_tracking'[id].chat_id = ev'.chat_id
                    /\ order_tracking'[id].created_at = clock
                    /\ order_tracking'[id].customer_name =
                            user_sessions[ev'.chat_id].customer_name
                    /\ order_tracking'[id].phone = user_sessions[ev'.chat_id].phone
                    /\ order_tracking'[id].address =
                            user_sessions[ev'.chat_id].address
          /\ \A c \in DOMAIN user_sessions' :
                (/\ step_of(user_sessions', c) \in CheckoutSteps \ {"awaiting_name"}
                 /\ step_of(user_sessions', c) # step_of(user_sessions, c))
                => /\ HandlesTextAt(StepBefore(user_sessions'[c].step))
                   /\ ev'.chat_id = c]_vars

(* An order carrying a name, a phone and an address that are three        *)
(* different texts has just been created.                                 *)
C17_Witness ==
    /\ ev.kind = "message"
    /\ \E id \in DOMAIN order_tracking :
        /\ order_tracking[id].chat_id = ev.chat_id
        /\ order_tracking[id].customer_name = TxtAna
        /\ order_tracking[id].phone = CmdClearCart
        /\ order_tracking[id].address = CmdCheckout
        /\ order_tracking[id].status = "Pending"
    /\ step_of(user_sessions, ev.chat_id) = "main_menu"
    /\ CartOf(user_carts, ev.chat_id) = EmptyDict

(* C18: a '/start' or 'Main Menu' text, sent in any session step, leaves  *)
(* the sender's step equal to main_menu.                                  *)
C18_MainMenuInputResets ==
    [][(/\ HandlesUpdate
        /\ ev'.kind = "message"
        /\ ev'.data \in {CmdStart, CmdMainMenu})
        => step_of(user_sessions', ev'.chat_id) = "main_menu"]_vars

(* C19: an order in the ledger stays in the ledger, and its user, name,   *)
(* phone, address, cart snapshot, total and created_at never change.      *)
C19_OrdersAreImmutable ==
    [][\A id \in DOMAIN order_tracking :
        /\ id \in DOMAIN order_tracking'
        /\ order_tracking'[id].chat_id = order_tracking[id].chat_id
        /\ order_tracking'[id].customer_name = order_tracking[id].customer_name
        /\ order_tracking'[id].phone = order_tracking[id].phone
        /\ order_tracking'[id].address = order_tracking[id].address
        /\ order_tracking'[id].cart = order_tracking[id].cart
        /\ order_tracking'[id].total = order_tracking[id].total
        /\ order_tracking'[id].created_at = order_tracking[id].created_at]_vars

(* The carts other than the one of chat_id. *)
OtherCarts(carts, chat_id) ==
    [c \in DOMAIN carts \ {chat_id} |-> carts[c]]

(* C20: an item-select, in any session step, leaves the sessions, the     *)
(* ledger and every other user's cart unchanged; for a name that is not   *)
(* in the catalog the sender's cart is unchanged too.                     *)
C20_ItemSelectChangesOnlyCart ==
    /\ [](\A u \in Users : \A item \in {ItemBananas, ItemUnknown} :
            LET st == handle_callback_query(Cur, ADMIN_CHAT_ID, u, PfxAdd \o item)
            IN  /\ st.sessions = user_sessions
                /\ st.orders = order_tracking
                /\ OtherCarts(st.carts, u) = OtherCarts(user_carts, u)
                /\ item \notin CatalogItems => st.carts = user_carts
                /\ item \in CatalogItems => st.carts # user_carts)
    /\ [][ItemSelected =>
            /\ user_sessions' = user_sessions
            /\ order_tracking' = order_tracking
            /\ OtherCarts(user_carts', ev'.chat_id) = OtherCarts(user_carts, ev'.chat_id)
            /\ user_carts' # user_carts]_vars

(* An item was selected by a user in the middle of the checkout dialogue, *)
(* while the other user has a cart and the ledger an order.               *)
C20_Witness ==
    /\ ev.kind = "callback"
    /\ ev.data = PfxAdd \o ItemBeefSteak
    /\ step_of(user_sessions, ev.chat_id) \in CheckoutSteps
    /\ user_carts[ev.chat_id][ItemBeefSteak].quantity = 2
    /\ \E c \in DOMAIN user_carts : c # ev.chat_id
    /\ out[1].tmpl = "Added to cart"

(* The ids of the updates fetched and not yet handled. *)
Pending == {batch[i] : i \in DOMAIN batch}

(* C21: the updates of a batch are handled one at a time from the front,  *)
(* each leaving the rest of the batch in place, and the next poll comes   *)
(* only when none is left; the cursor never decreases; every fetched id   *)
(* is below the cursor, and a poll fetches only ids at or above the       *)
(* cursor it was made with, so no update is fetched a second time.        *)
C21_EachUpdateOnceInOrder ==
    /\ [](/\ \A i \in DOMAIN batch : batch[i] < last_update_id
          /\ \A i \in DOMAIN batch : \A j \in DOMAIN batch :
                i < j => batch[i] < batch[j]
          /\ pc \in {"boot", "exited", "poll"} => batch = <<>>)
    /\ [][/\ last_update_id' >= last_update_id
          /\ batch' # batch =>
                \/ /\ pc = "handle" /\ pc' = "handle"
                   /\ batch # <<>>
                   /\ batch' = Tail(batch)
                   /\ ev'.kind \in {"message", "callback", "other"}
                   /\ last_update_id' = last_update_id
                \/ /\ pc = "poll" /\ pc' = "handle"
                   /\ batch = <<>>
                   /\ \A i \in DOMAIN batch' : batch'[i] >= last_update_id
                   /\ \A i \in DOMAIN batch' : batch'[i] < last_update_id'
          /\ (ev' # ev \/ out' # out \/ user_carts' # user_carts
                \/ user_sessions' # user_sessions
                \/ order_tracking' # order_tracking)
                => (batch # <<>> /\ batch' = Tail(batch))]_vars

(* A later poll fetched several updates, none of them fetched before, and *)
(* the first of them has been handled.                                    *)
C21_Witness ==
    /\ pc = "handle"
    /\ Len(batch) >= 2
    /\ batch[1] >= 3
    /\ last_update_id = batch[Len(batch)] + 1
    /\ ev.kind = "message"
    /\ user_carts # EmptyDict

(* C22: when the credential or the operator identity is missing at        *)
(* startup the control loop is never entered: nothing is fetched or       *)
(* handled and the ledger stays empty.                                    *)
C22_LoopNeedsConfiguration ==
    (~TELEGRAM_TOKEN \/ ADMIN_CHAT_ID = Unset) =>
        /\ pc \in {"boot", "exited"}
        /\ batch = <<>>
        /\ last_update_id = 0
        /\ ev = NoEvent
        /\ order_tracking = EmptyDict

(* The sessions of everyone but chat_id. *)
OtherSessions(sessions, chat_id) ==
    [c \in DOMAIN sessions \ {chat_id} |-> sessions[c]]

(* An order record without the two fields an operator action writes. *)
OrderBody(order) ==
    [f \in DOMAIN order \ {"status", "updated_at"} |-> order[f]]

(* C23: handling an update sent by one user leaves the cart and the       *)
(* session of every other user as they were; an operator action on        *)
(* another user's order changes nothing of the ledger but that order's    *)
(* status and updated_at.                                                 *)
C23_UsersAreIsolated ==
    [][HandlesUpdate =>
        /\ OtherCarts(user_carts', ev'.chat_id)
                = OtherCarts(user_carts, ev'.chat_id)
        /\ OtherSessions(user_sessions', ev'.chat_id)
                = OtherSessions(user_sessions, ev'.chat_id)
        /\ UpdateCall # <<>> =>
              /\ DOMAIN order_tracking' = DOMAIN order_tracking
              /\ \A id \in DOMAIN order_tracking :
                    /\ OrderBody(order_tracking'[id]) = OrderBody(order_tracking[id])
                    /\ id # UpdateCall[1] => order_tracking'[id] = order_tracking[id]]_vars

(* The operator has marked another user's order as shipped while that     *)
(* user has a line in the cart again.                                     *)
C23_Witness ==
    /\ ev.kind = "callback"
    /\ startswith(ev.data, PfxShip)
    /\ ADMIN_CHAT_ID = str(ev.chat_id)
    /\ \E id \in DOMAIN order_tracking :
          /\ order_tracking[id].chat_id # ev.chat_id
          /\ order_tracking[id].status = "Shipped"
          /\ order_tracking[id].chat_id \in DOMAIN user_carts
          /\ user_carts[order_tracking[id].chat_id] # EmptyDict

(* The number of texts after which a session in an input-collecting step  *)
(* is back at main_menu: the inputs still to be collected.                *)
TextsLeft(sessions, chat_id) ==
    CASE step_of(sessions, chat_id) = "awaiting_name" -> 4
      [] step_of(sessions, chat_id) = "awaiting_phone" -> 3
      [] step_of(sessions, chat_id) = "awaiting_address" -> 2
      [] step_of(sessions, chat_id) = "awaiting_instructions" -> 1
      [] step_of(sessions, chat_id) = "awaiting_cancel_reason" -> 1
      [] OTHER -> 0

(* Texts a user may send while an input is awaited, besides those of the  *)
(* specification's alphabet: the two that reset a session elsewhere, and  *)
(* the one awaiting_instructions looks for.                               *)
AnswerTexts == {CmdStart, CmdMainMenu, TxtNone}

(* C24: a user in an awaiting_* step is at most four texts away from      *)
(* main_menu: with the ledger insert succeeding, every text that user     *)
(* sends brings the session one input closer (awaiting_name 4,            *)
(* awaiting_phone 3, awaiting_address 2, awaiting_instructions and        *)
(* awaiting_cancel_reason 1), and the last one sets the step to           *)
(* main_menu.                                                             *)
C24_NoSessionIsStuck ==
    /\ [](\A u \in DOMAIN user_sessions :
            TextsLeft(user_sessions, u) > 0 =>
                \A text \in AnswerTexts :
                    LET st == handle_message(Cur, ADMIN_CHAT_ID, u, text,
                                             TRUE, TRUE)
                    IN  /\ TextsLeft(st.sessions, u)
                              = TextsLeft(user_sessions, u) - 1
                        /\ TextsLeft(user_sessions, u) = 1
                              => step_of(st.sessions, u) = "main_menu")
    /\ [][(/\ HandlesUpdate
           /\ ev'.kind = "message"
           /\ ev'.insert_ok
           /\ TextsLeft(user_sessions, ev'.chat_id) > 0) =>
            /\ TextsLeft(user_sessions', ev'.chat_id)
                  = TextsLeft(user_sessions, ev'.chat_id) - 1
            /\ TextsLeft(user_sessions, ev'.chat_id) = 1
                  => step_of(user_sessions', ev'.chat_id) = "main_menu"]_vars

(* The operator answered a cancel request for an order that is not in the *)
(* ledger, and is back at main_menu after that one text; a customer's     *)
(* four texts have already produced an order.                             *)
C24_Witness ==
    /\ ev.kind = "message"
    /\ ADMIN_CHAT_ID = str(ev.chat_id)
    /\ step_of(user_sessions, ev.chat_id) = "main_menu"
    /\ out = <<>>
    /\ order_tracking # EmptyDict
====
